---- MODULE Spec2Model ----
(***************************************************************************)
(* GitRover: the AI-insight pipeline (services/aiService.ts) and the       *)
(* accordion that drives it (components/AISidebarFeatures.tsx).            *)
(*                                                                         *)
(* JavaScript values are tagged tuples <<tag, payload>>.  A string is a    *)
(* sequence of tokens, so that `includes`, concatenation and emptiness are *)
(* computed and not assumed.                                               *)
(***************************************************************************)
EXTENDS Integers, Sequences, FiniteSets, TLC

\* ------------------------------------------------------------------ bounds
\* longest transport error message, in tokens
MaxMsgLen == 2
\* service invocations per insight kind after which the model stops toggling
MaxCalls == 3
\* file paths beyond the prompt's limit that a repository tree may carry
MaxExtraPaths == 2
\* characters beyond the prompt's limit that a key file may carry
MaxExtraChars == 2
\* key files a RepoHealthContext may carry
MaxKeyFiles == 10
\* updater functions queued between two renders of the BookmarkProvider
MaxPending == 2
\* entries a bookmark list is allowed to reach
MaxBookmarks == 3
\* getTree requests in flight
MaxFetches == 2

\* --------------------------------------------------------------- JS values
Str(s) == <<"string", s>>
undefined == <<"undefined", <<>>>>
null == <<"null", <<>>>>
ErrorObject(name, message) == <<"error", [name |-> name, message |-> message]>>
Obj(fields) == <<"object", fields>>

IsString(v) == v[1] = "string"
IsNullish(v) == v[1] \in {"undefined", "null"}

\* JS truthiness of the values the program handles
Truthy(v) ==
    CASE v[1] = "string" -> v[2] /= <<>>
      [] v[1] \in {"undefined", "null"} -> FALSE
      [] OTHER -> TRUE

\* String.prototype.includes
includes(s, needle) ==
    \E i \in 0..(Len(s) - Len(needle)) : SubSeq(s, i + 1, i + Len(needle)) = needle

\* error?.message
Message(error) ==
    IF error[1] = "error" THEN error[2].message ELSE undefined

\* error?.toString()
toString(error) ==
    CASE IsNullish(error) -> undefined
      [] error[1] = "string" -> error
      [] error[1] = "error" ->
            LET m == IF IsString(error[2].message) THEN error[2].message[2] ELSE <<>>
            IN  IF m = <<>> THEN Str(<<error[2].name>>)
                ELSE Str(<<error[2].name, ": ">> \o m)
      [] OTHER -> Str(<<"[object Object]">>)

\* ------------------------------------------------ aiService.ts: messages
RateLimited == <<"Brain Freeze: The AI has reached its daily thinking limit.">>
ServiceOverloaded == <<"AI is Nap-taking: The model is currently overloaded with requests.">>
InvalidCredential == <<"Key Issue: The API key appears to be missing or invalid.">>
ContentFiltered == <<"Safety Shield: the content triggered safety filters.">>
UnknownModelError == <<"Hiccup: The AI encountered an unexpected error.">>
EmptyPlaceholder == <<"The AI thought about it but didn't have anything to say.">>
EmptyResponseText == <<"The AI returned an empty response.">>
MapTypeError == <<"Cannot read properties of undefined (reading 'map')">>

\* mutant: "safety" alone is taken for a filtered response
getFriendlyErrorMessage_safetyAlone(error) ==
    LET msg == IF Truthy(Message(error)) THEN Message(error)[2]
               ELSE IF Truthy(toString(error)) THEN toString(error)[2]
               ELSE <<>>
    IN  IF includes(msg, <<"429">>) \/ includes(msg, <<"Quota exceeded">>)
            THEN Str(RateLimited)
        ELSE IF includes(msg, <<"503">>) \/ includes(msg, <<"Overloaded">>)
            THEN Str(ServiceOverloaded)
        ELSE IF includes(msg, <<"API key not valid">>) \/ includes(msg, <<"API_KEY">>)
            THEN Str(InvalidCredential)
        ELSE IF includes(msg, <<"safety">>)
            THEN Str(ContentFiltered)
        ELSE Str(UnknownModelError)

\* mutant: the overload test runs before the quota test
getFriendlyErrorMessage_overloadFirst(error) ==
    LET msg == IF Truthy(Message(error)) THEN Message(error)[2]
               ELSE IF Truthy(toString(error)) THEN toString(error)[2]
               ELSE <<>>
    IN  IF includes(msg, <<"503">>) \/ includes(msg, <<"Overloaded">>)
            THEN Str(ServiceOverloaded)
        ELSE IF includes(msg, <<"429">>) \/ includes(msg, <<"Quota exceeded">>)
            THEN Str(RateLimited)
        ELSE IF includes(msg, <<"API key not valid">>) \/ includes(msg, <<"API_KEY">>)
            THEN Str(InvalidCredential)
        ELSE IF includes(msg, <<"candidate">>) /\ includes(msg, <<"safety">>)
            THEN Str(ContentFiltered)
        ELSE Str(UnknownModelError)

getFriendlyErrorMessage(error) ==
    LET msg == IF Truthy(Message(error)) THEN Message(error)[2]
               ELSE IF Truthy(toString(error)) THEN toString(error)[2]
               ELSE <<>>
    IN  IF includes(msg, <<"429">>) \/ includes(msg, <<"Quota exceeded">>)
            THEN Str(RateLimited)
        ELSE IF includes(msg, <<"503">>) \/ includes(msg, <<"Overloaded">>)
            THEN Str(ServiceOverloaded)
        ELSE IF includes(msg, <<"API key not valid">>) \/ includes(msg, <<"API_KEY">>)
            THEN Str(InvalidCredential)
        ELSE IF includes(msg, <<"candidate">>) /\ includes(msg, <<"safety">>)
            THEN Str(ContentFiltered)
        ELSE Str(UnknownModelError)

\* ----------------------------------------------------- promise settlement
Fulfilled(v) == [status |-> "fulfilled", value |-> v]
Rejected(e) == [status |-> "rejected", value |-> e]

\* ------------------------------------- outcome of ai.models.generateContent
ApiText(t) == [throws |-> FALSE, text |-> t, error |-> undefined]
ApiThrow(e) == [throws |-> TRUE, text |-> undefined, error |-> e]

\* ---------------------------------------------------- aiService.ts: inputs
\* substrings a transport error message can be made of: the classifier's
\* needles, a needle in the wrong case and text that matches nothing
TransportTokens ==
    {"429", "Quota exceeded", "503", "Overloaded", "API key not valid",
     "API_KEY", "candidate", "safety", "overloaded", "fetch failed"}

Messages == UNION {[1..n -> TransportTokens] : n \in 0..MaxMsgLen}

\* what generateContent can throw: an Error with a message (possibly empty),
\* a bare string, or null
Errors ==
    {null} \cup {ErrorObject("Error", Str(m)) : m \in Messages}
           \cup {Str(m) : m \in Messages}

\* JSON text of an object with the given optional fields
JsonText(analysis, score) ==
    Str(<<"{">> \o analysis \o score \o <<"}">>)

AnalysisFields == {<<>>, <<"\"analysis\":", "\"ok\"">>, <<"\"analysis\":", "7">>}
ScoreLiterals == {"-5", "0", "1", "42", "100", "101", "150", "\"high\"", "null"}
ScoreFields == {<<>>} \cup {<<"\"health_score\":", l>> : l \in ScoreLiterals}

JsonTexts == {JsonText(a, s) : a \in AnalysisFields, s \in ScoreFields}

\* response.text: absent, empty, prose, JSON, or text that is not JSON
ModelTexts ==
    {undefined, Str(<<>>), Str(<<"A one-paragraph answer.">>), Str(<<"{", "oops">>)}
        \cup JsonTexts

ApiOutcomes == {ApiText(t) : t \in ModelTexts} \cup {ApiThrow(e) : e \in Errors}

\* ------------------------------------------------------------------- JSON
\* What JSON.parse and the schema of lines 142-155 make of a response text.
\* aiService.ts itself never parses: these serve the claims about validation.
NumberLiterals ==
    {<<"-5", -5>>, <<"0", 0>>, <<"1", 1>>, <<"42", 42>>, <<"100", 100>>,
     <<"101", 101>>, <<"150", 150>>}
StringLiterals == {<<"\"ok\"", "ok">>, <<"\"high\"", "high">>}

IsJsonObject(t) ==
    /\ Len(t) >= 2 /\ t[1] = "{" /\ t[Len(t)] = "}"
    /\ Len(t) % 2 = 0
    /\ \A i \in 2..(Len(t) - 1) :
          i % 2 = 0 => t[i] \in {"\"analysis\":", "\"health_score\":"}

\* the literal that follows a key, "" when the key is absent
JsonField(t, key) ==
    IF \E i \in 2..(Len(t) - 1) : t[i] = key
        THEN t[(CHOOSE i \in 2..(Len(t) - 1) : t[i] = key) + 1]
        ELSE ""

IsNumberLiteral(lit) == \E p \in NumberLiterals : p[1] = lit
NumberOf(lit) == (CHOOSE p \in NumberLiterals : p[1] = lit)[2]
IsStringLiteral(lit) == \E p \in StringLiterals : p[1] = lit
StringOf(lit) == (CHOOSE p \in StringLiterals : p[1] = lit)[2]

\* {analysis: string, health_score: number in [1,100]}, both present
ValidHealthOutput(t) ==
    /\ IsJsonObject(t)
    /\ IsStringLiteral(JsonField(t, "\"analysis\":"))
    /\ IsNumberLiteral(JsonField(t, "\"health_score\":"))
    /\ NumberOf(JsonField(t, "\"health_score\":")) \in 1..100

ParsedHealth(t) ==
    Obj([analysis |-> Str(<<StringOf(JsonField(t, "\"analysis\":"))>>),
         health_score |-> NumberOf(JsonField(t, "\"health_score\":"))])

\* -------------------------------------------------- aiService.ts: prompts
\* config.thinkingConfig.thinkingBudget of runPrompt
ThinkingBudget == 32768
\* characters of the README the summary prompt embeds
ReadmeLimit == 8000
\* file paths the health prompt lists
TreeLimit == 100
\* characters of a key file the health prompt embeds
KeyFileLimit == 2000
\* files the go-to-file list shows
ResultLimit == 100

Min(a, b) == IF a < b THEN a ELSE b

\* mutant: one element more than asked for
slice_offByOne(a, n) == SubSeq(a, 1, Min(n + 1, Len(a)))

\* String.prototype.substring(0, n)
substring(s, n) == SubSeq(s, 1, Min(n, Len(s)))

\* Array.prototype.slice(0, n)
slice(a, n) == SubSeq(a, 1, Min(n, Len(a)))

\* Array.prototype.join: parts are strings, the result is their concatenation
RECURSIVE join(_, _)
join(parts, sep) ==
    IF parts = <<>> THEN <<>>
    ELSE IF Len(parts) = 1 THEN parts[1]
    ELSE LET half == Len(parts) \div 2
         IN  join(SubSeq(parts, 1, half), sep) \o sep
                 \o join(SubSeq(parts, half + 1, Len(parts)), sep)

\* the characters of  value || fallback  inside a template literal
OrElse(value, fallback) == IF Truthy(value) THEN value[2] ELSE fallback

NotAvailable == <<"N/A">>
NoTopics == <<"None">>
DescriptionLabel == "- **Description:** "
LanguageLabel == "- **Primary Language:** "
TopicsLabel == "- **Topics:** "
ReadmeOpen == "**README Content Snippet:**\n---\n"
ReadmeClose == "\n---\n**Goal:** Focus on the main purpose, key features, and intended audience."

\* mutant: a missing README is replaced by the N/A marker
summarizeRepoPrompt_readmeMarker(context) ==
    LET c == context[2]
        topics == join([i \in 1..Len(c.topics) |-> <<c.topics[i]>>], <<", ">>)
    IN  <<"You are an expert technical writer.", "- **Name:** ">> \o c.name[2]
            \o <<DescriptionLabel>> \o OrElse(c.description, NotAvailable)
            \o <<LanguageLabel>> \o OrElse(c.primaryLanguage, NotAvailable)
            \o <<TopicsLabel>> \o (IF topics = <<>> THEN NoTopics ELSE topics)
            \o <<ReadmeOpen>>
            \o substring(OrElse(c.readme, NotAvailable), ReadmeLimit)
            \o <<ReadmeClose>>

\* the template literal of summarizeRepo
summarizeRepoPrompt(context) ==
    LET c == context[2]
        topics == join([i \in 1..Len(c.topics) |-> <<c.topics[i]>>], <<", ">>)
    IN  <<"You are an expert technical writer.", "- **Name:** ">> \o c.name[2]
            \o <<DescriptionLabel>> \o OrElse(c.description, NotAvailable)
            \o <<LanguageLabel>> \o OrElse(c.primaryLanguage, NotAvailable)
            \o <<TopicsLabel>> \o (IF topics = <<>> THEN NoTopics ELSE topics)
            \o <<ReadmeOpen>>
            \o substring(OrElse(c.readme, <<>>), ReadmeLimit)
            \o <<ReadmeClose>>

FileOpen == "\n<file path=\""
FileOpenEnd == "\">\n"
FileClose == "\n</file>\n"
TreeOpen == "<file_tree>"
TreeClose == "</file_tree>"
NoKeyFiles == <<"No key files content provided.">>

\* one element of context.keyFiles.map(...)
keyFileBlock(f) ==
    <<FileOpen, f.path, FileOpenEnd>> \o substring(f.content, KeyFileLimit) \o <<FileClose>>

\* context.keyFiles.map(...).join('\n') || 'No key files content provided.'
keyFilesSummary(keyFiles) ==
    LET blocks == join([i \in 1..Len(keyFiles) |-> keyFileBlock(keyFiles[i])], <<"\n">>)
    IN  IF blocks = <<>> THEN NoKeyFiles ELSE blocks

\* mutant: only the first five key files are embedded
checkRepoHealthPrompt_capped(context) ==
    LET c == context[2]
        paths == slice(c.filePaths, TreeLimit)
    IN  <<"Analyze the health of a GitHub repository.", TreeOpen>>
            \o join([i \in 1..Len(paths) |-> <<paths[i]>>], <<"\n">>)
            \o <<TreeClose, "**Key File Contents:**">> \o keyFilesSummary(slice(c.keyFiles, 5))
            \o <<"**Scoring Criteria:** Documentation (40%), Structure (30%), Dependencies (20%), Testing (10%)">>

\* the template literal of checkRepoHealth
checkRepoHealthPrompt(context) ==
    LET c == context[2]
        paths == slice(c.filePaths, TreeLimit)
    IN  <<"Analyze the health of a GitHub repository.", TreeOpen>>
            \o join([i \in 1..Len(paths) |-> <<paths[i]>>], <<"\n">>)
            \o <<TreeClose, "**Key File Contents:**">> \o keyFilesSummary(c.keyFiles)
            \o <<"**Scoring Criteria:** Documentation (40%), Structure (30%), Dependencies (20%), Testing (10%)">>

\* the template literal of explainCode
explainCodePrompt(codeSnippet) ==
    <<"Explain the following code snippet in a clear and concise way.", "[code fence]">>
        \o codeSnippet[2] \o <<"[code fence]">>

NoDescription == <<"No description provided.">>
BodyLabel == "**Description:**"
FilesLabel == "**Changed Files:**"
ReviewInstructions == "**Instructions:** Analyze Intent, Impact Assessment, Recommendations"

\* mutant: additions and deletions change places
fileLine_swapped(f) ==
    <<"- ", f.filename, " (", f.status, ": +", ToString(f.deletions),
      ", -", ToString(f.additions), ")">>

\* - ${f.filename} (${f.status}: +${f.additions}, -${f.deletions})
fileLine(f) ==
    <<"- ", f.filename, " (", f.status, ": +", ToString(f.additions),
      ", -", ToString(f.deletions), ")">>

\* the template literal of reviewPullRequest
reviewPullRequestPrompt(context) ==
    LET c == context[2]
        fileList == join([i \in 1..Len(c.files) |-> fileLine(c.files[i])], <<"\n">>)
    IN  <<"You are a Senior Software Engineer conducting a Pull Request review.",
          "**PR Title:** ">> \o c.title[2]
            \o <<"**Author:** ">> \o c.user[2]
            \o <<BodyLabel>> \o OrElse(c.body, NoDescription)
            \o <<FilesLabel>> \o fileList
            \o <<ReviewInstructions>>

\* ------------------------------------------------- aiService.ts: requests
\* the argument of generateContent in runPrompt
runPromptRequest(prompt) ==
    [model |-> "gemini-3-pro-preview", contents |-> prompt,
     config |-> [thinkingConfig |-> [thinkingBudget |-> ThinkingBudget]]]

\* the argument of generateContent in checkRepoHealth
checkRepoHealthRequest(prompt) ==
    [model |-> "gemini-3-pro-preview", contents |-> prompt,
     config |-> [responseMimeType |-> "application/json",
                 responseSchema |-> [required |-> <<"analysis", "health_score">>]]]

\* ------------------------------------------------- aiService.ts: operations
\* mutant: the empty-text guard is missing, the empty text is returned
runPrompt_noPlaceholder(api) ==
    IF api.throws THEN Fulfilled(getFriendlyErrorMessage(api.error))
    ELSE IF IsNullish(api.text) THEN Fulfilled(Str(<<>>))
    ELSE Fulfilled(api.text)

\* mutant: the catch block rethrows the friendly message
runPrompt_rethrow(api) ==
    IF api.throws
        THEN Rejected(ErrorObject("Error", getFriendlyErrorMessage(api.error)))
    ELSE IF ~Truthy(api.text) THEN Fulfilled(Str(EmptyPlaceholder))
    ELSE Fulfilled(api.text)

runPrompt(api) ==
    IF api.throws THEN Fulfilled(getFriendlyErrorMessage(api.error))
    ELSE IF ~Truthy(api.text) THEN Fulfilled(Str(EmptyPlaceholder))
    ELSE Fulfilled(api.text)

summarizeRepo(context, api) == runPrompt(api)

explainCode(codeSnippet, api) == runPrompt(api)

reviewPullRequest(context, api) == runPrompt(api)

\* mutant: the response is parsed and validated before it is returned
checkRepoHealth_validating(context, api) ==
    IF context[1] /= "object"
        THEN Rejected(ErrorObject("TypeError", Str(MapTypeError)))
    ELSE IF api.throws
        THEN Rejected(ErrorObject("Error", getFriendlyErrorMessage(api.error)))
    ELSE IF ~Truthy(api.text)
        THEN Rejected(ErrorObject("Error",
                getFriendlyErrorMessage(ErrorObject("Error", Str(EmptyResponseText)))))
    ELSE IF ~ValidHealthOutput(api.text[2])
        THEN Rejected(ErrorObject("Error", Str(<<"MalformedModelOutput">>)))
    ELSE Fulfilled(api.text)

\* mutant: the parsed object is returned instead of the text
checkRepoHealth_parsing(context, api) ==
    IF context[1] /= "object"
        THEN Rejected(ErrorObject("TypeError", Str(MapTypeError)))
    ELSE IF api.throws
        THEN Rejected(ErrorObject("Error", getFriendlyErrorMessage(api.error)))
    ELSE IF ~Truthy(api.text)
        THEN Rejected(ErrorObject("Error",
                getFriendlyErrorMessage(ErrorObject("Error", Str(EmptyResponseText)))))
    ELSE IF ValidHealthOutput(api.text[2])
        THEN Fulfilled(ParsedHealth(api.text[2]))
    ELSE Fulfilled(api.text)

checkRepoHealth(context, api) ==
    IF context[1] /= "object"
        \* context.keyFiles is undefined: .map throws before the try block
        THEN Rejected(ErrorObject("TypeError", Str(MapTypeError)))
    ELSE IF api.throws
        THEN Rejected(ErrorObject("Error", getFriendlyErrorMessage(api.error)))
    ELSE IF ~Truthy(api.text)
        \* thrown inside the try block, so the catch block reclassifies it
        THEN Rejected(ErrorObject("Error",
                getFriendlyErrorMessage(ErrorObject("Error", Str(EmptyResponseText)))))
    ELSE Fulfilled(api.text)

\* ------------------------------------------------------------------- state
VARIABLES
    \* AISidebarFeatures props
    repo, readmeContent,
    \* whether the AISidebarFeatures instance is still in the tree
    mounted,
    \* AISidebarFeatures state (useState)
    summary, isSummaryLoading, summaryError, isSummaryOpen,
    healthResult, isHealthLoading, healthError, isHealthOpen,
    \* service promises waiting for generateContent
    inflight,
    \* the promise whose .then/.catch/.finally callbacks are running
    chain,
    \* service invocations made by the panel, per operation
    calls,
    \* history: the last header click, whether it opened the card and
    \* whether it called the service
    lastToggle,
    \* a direct invocation of an aiService operation and its settlement
    svcCall, svcResult,
    \* the arguments of the generateContent calls that invocation made
    apiRequests,
    \* an AIPrReviewModal instance: its props, its state (useState), whether
    \* it is still in the tree, the await generateReview is suspended at and
    \* how the files fetch ended
    prModal,
    \* BookmarkProvider state (useState) as of the last render, which is what
    \* the closures of addRepo, addGist and the is...Bookmarked functions read
    bookmarkedRepos, bookmarkedGists,
    \* the updater functions queued by setBookmarkedRepos and
    \* setBookmarkedGists since that render
    pendingRepoUpdates, pendingGistUpdates,
    \* the two localStorage items the provider reads and writes
    localStorage,
    \* a GoToFileModal instance: its show prop, its state (useState), the
    \* getTree promises in flight, the last path navigated to and whether
    \* onClose has been called since the modal was shown
    goToFile

props == <<repo, readmeContent>>
summaryVars == <<summary, isSummaryLoading, summaryError, isSummaryOpen>>
healthVars == <<healthResult, isHealthLoading, healthError, isHealthOpen>>
promiseVars == <<inflight, chain, calls>>
historyVars == <<lastToggle>>
panelVars == <<props, mounted, summaryVars, healthVars, promiseVars, historyVars>>
svcVars == <<svcCall, svcResult, apiRequests>>
bookmarkVars == <<bookmarkedRepos, bookmarkedGists, pendingRepoUpdates,
                  pendingGistUpdates, localStorage>>
pageVars == <<bookmarkVars, goToFile>>
vars == <<panelVars, svcVars, prModal, pageVars>>

Operations == {"summarizeRepo", "checkRepoHealth", "explainCode", "reviewPullRequest"}

\* ------------------------------------------------------- component inputs
Descriptions == {null, Str(<<"A GitHub explorer">>)}
Readmes == {null, Str(<<"# GitRover">>)}

Repos ==
    {[name |-> Str(<<"GitRover">>), description |-> d,
      topics |-> <<>>, language |-> null] : d \in Descriptions}

\* RepoSummaryContext as toggleSummary builds it
SummaryContext(r, readme) ==
    Obj([name |-> r.name,
         description |-> IF Truthy(r.description) THEN r.description ELSE Str(<<>>),
         topics |-> r.topics,
         primaryLanguage |-> IF Truthy(r.language) THEN r.language ELSE Str(<<>>),
         readme |-> readme])

\* well-formed RepoHealthContext values, for direct invocations
HealthContexts ==
    {Obj([filePaths |-> <<>>, keyFiles |-> <<>>]),
     Obj([filePaths |-> <<"README.md", "src/App.tsx">>,
          keyFiles |-> <<[path |-> "README.md", content |-> <<"# GitRover">>]>>])}

NoChain ==
    [op |-> "none", stage |-> "none", context |-> undefined,
     settlement |-> Fulfilled(undefined)]

\* an async operation that throws before its first await is rejected when
\* the call returns: its callbacks run before any other event
SettledAtCall(op, context) == op = "checkRepoHealth" /\ context[1] /= "object"

Invoke(op, context, api) ==
    CASE op = "summarizeRepo" -> summarizeRepo(context, api)
      [] op = "checkRepoHealth" -> checkRepoHealth(context, api)
      [] op = "explainCode" -> explainCode(context, api)
      [] op = "reviewPullRequest" -> reviewPullRequest(context, api)

\* the generateContent calls an invocation makes: none when it throws before
\* its try block
Requests(op, context) ==
    CASE op = "summarizeRepo" -> <<runPromptRequest(summarizeRepoPrompt(context))>>
      [] op = "checkRepoHealth" ->
            IF SettledAtCall(op, context) THEN <<>>
            ELSE <<checkRepoHealthRequest(checkRepoHealthPrompt(context))>>
      [] op = "explainCode" -> <<runPromptRequest(explainCodePrompt(context))>>
      [] op = "reviewPullRequest" -> <<runPromptRequest(reviewPullRequestPrompt(context))>>

\* mutant: the operation is called twice
Issue_twice(op, context) ==
    /\ calls[op] < MaxCalls
    /\ calls' = [calls EXCEPT ![op] = @ + 2]
    /\ inflight' = inflight \cup
           {[op |-> op, id |-> calls[op] + i, context |-> context] : i \in 1..2}
    /\ UNCHANGED chain

\* the panel calls an operation: the promise is in flight, or already settled
Issue(op, context) ==
    /\ calls[op] < MaxCalls
    /\ calls' = [calls EXCEPT ![op] = @ + 1]
    /\ IF SettledAtCall(op, context)
          THEN /\ chain' = [op |-> op, stage |-> "handlers", context |-> context,
                            settlement |-> Invoke(op, context, ApiText(undefined))]
               /\ UNCHANGED inflight
          ELSE /\ inflight' = inflight \cup
                      {[op |-> op, id |-> calls[op] + 1, context |-> context]}
               /\ UNCHANGED chain

\* ------------------------------------------------- AISidebarFeatures.tsx
\* mutant: the loading flag is not consulted
summaryNeedsFetch_ignoreLoading == ~Truthy(summary)

\* mutant: the cached result is not consulted
summaryNeedsFetch_ignoreResult == ~isSummaryLoading

\* mutant: a stored error also suppresses the fetch
healthNeedsFetch_unlessError ==
    ~Truthy(healthResult) /\ ~isHealthLoading /\ ~Truthy(healthError)

\* line 110: if (!summary && !isSummaryLoading)
summaryNeedsFetch == ~Truthy(summary) /\ ~isSummaryLoading

\* line 139: if (!healthResult && !isHealthLoading)
healthNeedsFetch == ~Truthy(healthResult) /\ ~isHealthLoading

Toggled(card) ==
    lastToggle' = [card |-> card,
                   opened |-> IF card = "summary" THEN isSummaryOpen' ELSE isHealthOpen',
                   issued |-> calls' /= calls]

\* mutant: opening the summary card leaves the health card open
toggleSummary_keepsHealthOpen ==
    /\ mounted
    /\ chain = NoChain
    /\ UNCHANGED <<props, mounted, prModal, pageVars, svcVars, summary, healthResult, isHealthLoading, healthError>>
    /\ IF ~isSummaryOpen
          THEN /\ isSummaryOpen' = TRUE
               /\ UNCHANGED isHealthOpen
               /\ IF summaryNeedsFetch
                     THEN IF ~Truthy(readmeContent) /\ ~Truthy(repo.description)
                             THEN /\ summaryError' = Str(<<"Not enough info to generate summary.">>)
                                  /\ UNCHANGED <<isSummaryLoading, promiseVars>>
                             ELSE /\ isSummaryLoading' = TRUE
                                  /\ summaryError' = null
                                  /\ Issue("summarizeRepo", SummaryContext(repo, readmeContent))
                     ELSE UNCHANGED <<isSummaryLoading, summaryError, promiseVars>>
          ELSE /\ isSummaryOpen' = FALSE
               /\ UNCHANGED <<isHealthOpen, isSummaryLoading, summaryError, promiseVars>>
    /\ Toggled("summary")

toggleSummary ==
    /\ mounted
    /\ chain = NoChain
    /\ UNCHANGED <<props, mounted, prModal, pageVars, svcVars, summary, healthResult, isHealthLoading, healthError>>
    /\ IF ~isSummaryOpen
          THEN /\ isSummaryOpen' = TRUE
               /\ isHealthOpen' = FALSE
               /\ IF summaryNeedsFetch
                     THEN IF ~Truthy(readmeContent) /\ ~Truthy(repo.description)
                             THEN /\ summaryError' = Str(<<"Not enough info to generate summary.">>)
                                  /\ UNCHANGED <<isSummaryLoading, promiseVars>>
                             ELSE /\ isSummaryLoading' = TRUE
                                  /\ summaryError' = null
                                  /\ Issue("summarizeRepo", SummaryContext(repo, readmeContent))
                     ELSE UNCHANGED <<isSummaryLoading, summaryError, promiseVars>>
          ELSE /\ isSummaryOpen' = FALSE
               /\ UNCHANGED <<isHealthOpen, isSummaryLoading, summaryError, promiseVars>>
    /\ Toggled("summary")

\* mutant: the stale error is not cleared when the request is issued
toggleHealth_keepsError ==
    /\ mounted
    /\ chain = NoChain
    /\ UNCHANGED <<props, mounted, prModal, pageVars, svcVars, healthResult, summary, isSummaryLoading, summaryError>>
    /\ IF ~isHealthOpen
          THEN /\ isHealthOpen' = TRUE
               /\ isSummaryOpen' = FALSE
               /\ IF healthNeedsFetch
                     THEN IF ~Truthy(readmeContent)
                             THEN /\ healthError' = Str(<<"No README content available.">>)
                                  /\ UNCHANGED <<isHealthLoading, promiseVars>>
                             ELSE /\ isHealthLoading' = TRUE
                                  /\ UNCHANGED healthError
                                  /\ Issue("checkRepoHealth", readmeContent)
                     ELSE UNCHANGED <<isHealthLoading, healthError, promiseVars>>
          ELSE /\ isHealthOpen' = FALSE
               /\ UNCHANGED <<isSummaryOpen, isHealthLoading, healthError, promiseVars>>
    /\ Toggled("health")

toggleHealth ==
    /\ mounted
    /\ chain = NoChain
    /\ UNCHANGED <<props, mounted, prModal, pageVars, svcVars, healthResult, summary, isSummaryLoading, summaryError>>
    /\ IF ~isHealthOpen
          THEN /\ isHealthOpen' = TRUE
               /\ isSummaryOpen' = FALSE
               /\ IF healthNeedsFetch
                     THEN IF ~Truthy(readmeContent)
                             THEN /\ healthError' = Str(<<"No README content available.">>)
                                  /\ UNCHANGED <<isHealthLoading, promiseVars>>
                             ELSE /\ isHealthLoading' = TRUE
                                  /\ healthError' = null
                                  /\ Issue("checkRepoHealth", readmeContent)
                     ELSE UNCHANGED <<isHealthLoading, healthError, promiseVars>>
          ELSE /\ isHealthOpen' = FALSE
               /\ UNCHANGED <<isSummaryOpen, isHealthLoading, healthError, promiseVars>>
    /\ Toggled("health")

\* generateContent returns or throws for one of the requests in flight and
\* the operation's promise settles
apiCompletes ==
    /\ chain = NoChain
    /\ \E r \in inflight, api \in ApiOutcomes :
          /\ inflight' = inflight \ {r}
          /\ chain' = [op |-> r.op, stage |-> "handlers", context |-> r.context,
                       settlement |-> Invoke(r.op, r.context, api)]
    /\ UNCHANGED <<props, mounted, prModal, pageVars, summaryVars, healthVars, calls, historyVars, svcVars>>

\* mutant: the update is applied to a component that is no longer mounted
setState_afterUnmount(isMounted, current, next) == next

\* a useState setter: React drops the update of an unmounted component
setState(isMounted, current, next) == IF isMounted THEN next ELSE current

\* err.message || fallback
ErrorText(err, fallback) ==
    IF Truthy(Message(err)) THEN Message(err) ELSE Str(fallback)

\* mutant: the catch handler also runs after a fulfilment
thenCatch_alwaysCatches(settlement, result, error, fallback) ==
    IF settlement.status = "fulfilled"
        THEN [result |-> settlement.value, error |-> Str(fallback)]
        ELSE [result |-> result, error |-> ErrorText(settlement.value, fallback)]

\* promise.then(setResult).catch(err => setError(err.message || fallback)):
\* the result and the error the component holds afterwards
thenCatch(settlement, result, error, fallback) ==
    IF settlement.status = "fulfilled"
        THEN [result |-> settlement.value, error |-> error]
        ELSE [result |-> result, error |-> ErrorText(settlement.value, fallback)]

SummaryFallback == <<"Failed to generate summary.">>
HealthFallback == <<"Failed to check health.">>

\* mutant: the outcome is dropped when the card is collapsed
summaryThenCatch_onlyIfOpen ==
    /\ chain.op = "summarizeRepo" /\ chain.stage = "handlers"
    /\ LET after == thenCatch(chain.settlement, summary, summaryError, SummaryFallback)
       IN  /\ summary' = setState(isSummaryOpen, summary, after.result)
           /\ summaryError' = setState(isSummaryOpen, summaryError, after.error)
    /\ chain' = [chain EXCEPT !.stage = "finally"]
    /\ UNCHANGED <<props, mounted, prModal, pageVars, isSummaryLoading, isSummaryOpen, healthVars, inflight, calls, historyVars, svcVars>>

\* mutant: the summary handlers also clear the health card's error
summaryThenCatch_clearsHealthError ==
    /\ chain.op = "summarizeRepo" /\ chain.stage = "handlers"
    /\ LET after == thenCatch(chain.settlement, summary, summaryError, SummaryFallback)
       IN  /\ summary' = setState(mounted, summary, after.result)
           /\ summaryError' = setState(mounted, summaryError, after.error)
    /\ healthError' = null
    /\ chain' = [chain EXCEPT !.stage = "finally"]
    /\ UNCHANGED <<props, mounted, prModal, pageVars, isSummaryLoading, isSummaryOpen, healthResult, isHealthLoading, isHealthOpen, inflight, calls, historyVars, svcVars>>

\* .then(setSummary).catch(err => setSummaryError(...))
summaryThenCatch ==
    /\ chain.op = "summarizeRepo" /\ chain.stage = "handlers"
    /\ LET after == thenCatch(chain.settlement, summary, summaryError, SummaryFallback)
       IN  /\ summary' = setState(mounted, summary, after.result)
           /\ summaryError' = setState(mounted, summaryError, after.error)
    /\ chain' = [chain EXCEPT !.stage = "finally"]
    /\ UNCHANGED <<props, mounted, prModal, pageVars, isSummaryLoading, isSummaryOpen, healthVars, inflight, calls, historyVars, svcVars>>

\* mutant: the loading flag is left set
summaryFinally_keepsLoading ==
    /\ chain.op = "summarizeRepo" /\ chain.stage = "finally"
    /\ chain' = NoChain
    /\ UNCHANGED <<props, mounted, prModal, pageVars, summaryVars, healthVars, inflight, calls, historyVars, svcVars>>

\* .finally(() => setIsSummaryLoading(false))
summaryFinally ==
    /\ chain.op = "summarizeRepo" /\ chain.stage = "finally"
    /\ isSummaryLoading' = setState(mounted, isSummaryLoading, FALSE)
    /\ chain' = NoChain
    /\ UNCHANGED <<props, mounted, prModal, pageVars, summary, summaryError, isSummaryOpen, healthVars, inflight, calls, historyVars, svcVars>>

\* .then(setHealthResult).catch(err => setHealthError(...))
healthThenCatch ==
    /\ chain.op = "checkRepoHealth" /\ chain.stage = "handlers"
    /\ LET after == thenCatch(chain.settlement, healthResult, healthError, HealthFallback)
       IN  /\ healthResult' = setState(mounted, healthResult, after.result)
           /\ healthError' = setState(mounted, healthError, after.error)
    /\ chain' = [chain EXCEPT !.stage = "finally"]
    /\ UNCHANGED <<props, mounted, prModal, pageVars, isHealthLoading, isHealthOpen, summaryVars, inflight, calls, historyVars, svcVars>>

\* .finally(() => setIsHealthLoading(false))
healthFinally ==
    /\ chain.op = "checkRepoHealth" /\ chain.stage = "finally"
    /\ isHealthLoading' = setState(mounted, isHealthLoading, FALSE)
    /\ chain' = NoChain
    /\ UNCHANGED <<props, mounted, prModal, pageVars, healthResult, healthError, isHealthOpen, summaryVars, inflight, calls, historyVars, svcVars>>

\* ------------------------------------------------------- BookmarkProvider
\* repositories and gists a page can offer for bookmarking; two of the
\* repositories are the same repository fetched at different times
BookmarkableRepos ==
    {[id |-> 1, stargazers_count |-> 10], [id |-> 1, stargazers_count |-> 11],
     [id |-> 2, stargazers_count |-> 5]}
BookmarkableGists ==
    {[id |-> "aa11", description |-> "notes"], [id |-> "bb22", description |-> "snippet"]}

\* JSON.stringify and JSON.parse of a bookmark list
stringify(value) == <<"json", value>>
parse(text) == text[2]

\* the initializer of useState: the stored list, or [] when nothing is stored
storedList(item) == IF item /= null THEN parse(item) ELSE <<>>

\* array.some(r => r.id === id)
some(list, id) == \E i \in DOMAIN list : list[i].id = id

\* the updater functions handed to setBookmarkedRepos / setBookmarkedGists
prepend(item) == <<"prepend", item>>
filterOut(id) == <<"filterOut", id>>
updater(update, prev) ==
    IF update[1] = "prepend"
    THEN <<update[2]>> \o prev
    ELSE SelectSeq(prev, LAMBDA r : r.id /= update[2])

\* React applies the queued updaters in order to the state of the last render
RECURSIVE applyUpdates(_, _)
applyUpdates(prev, updates) ==
    IF updates = <<>> THEN prev
    ELSE applyUpdates(updater(Head(updates), prev), Tail(updates))

PendingUpdates == Len(pendingRepoUpdates) + Len(pendingGistUpdates)

\* addRepo as created by the last render: the guard reads that render's list
addRepo ==
    /\ PendingUpdates < MaxPending
    /\ Len(bookmarkedRepos) + Len(pendingRepoUpdates) < MaxBookmarks
    /\ \E r \in BookmarkableRepos :
          /\ ~some(bookmarkedRepos, r.id)
          /\ pendingRepoUpdates' = Append(pendingRepoUpdates, prepend(r))
    /\ UNCHANGED <<panelVars, svcVars, prModal, goToFile, bookmarkedRepos,
                   bookmarkedGists, pendingGistUpdates, localStorage>>

removeRepo ==
    /\ PendingUpdates < MaxPending
    /\ \E r \in BookmarkableRepos :
          pendingRepoUpdates' = Append(pendingRepoUpdates, filterOut(r.id))
    /\ UNCHANGED <<panelVars, svcVars, prModal, goToFile, bookmarkedRepos,
                   bookmarkedGists, pendingGistUpdates, localStorage>>

addGist ==
    /\ PendingUpdates < MaxPending
    /\ Len(bookmarkedGists) + Len(pendingGistUpdates) < MaxBookmarks
    /\ \E g \in BookmarkableGists :
          /\ ~some(bookmarkedGists, g.id)
          /\ pendingGistUpdates' = Append(pendingGistUpdates, prepend(g))
    /\ UNCHANGED <<panelVars, svcVars, prModal, goToFile, bookmarkedRepos,
                   bookmarkedGists, pendingRepoUpdates, localStorage>>

removeGist ==
    /\ PendingUpdates < MaxPending
    /\ \E g \in BookmarkableGists :
          pendingGistUpdates' = Append(pendingGistUpdates, filterOut(g.id))
    /\ UNCHANGED <<panelVars, svcVars, prModal, goToFile, bookmarkedRepos,
                   bookmarkedGists, pendingRepoUpdates, localStorage>>

\* the provider re-renders: the queued updaters are applied and the effect of
\* each list that was set stores it
renderBookmarks ==
    /\ PendingUpdates > 0
    /\ bookmarkedRepos' = applyUpdates(bookmarkedRepos, pendingRepoUpdates)
    /\ bookmarkedGists' = applyUpdates(bookmarkedGists, pendingGistUpdates)
    /\ pendingRepoUpdates' = <<>>
    /\ pendingGistUpdates' = <<>>
    /\ localStorage' =
          [gitrover_bookmarked_repos |->
              IF pendingRepoUpdates /= <<>> THEN stringify(bookmarkedRepos')
              ELSE localStorage.gitrover_bookmarked_repos,
           gitrover_bookmarked_gists |->
              IF pendingGistUpdates /= <<>> THEN stringify(bookmarkedGists')
              ELSE localStorage.gitrover_bookmarked_gists]
    /\ UNCHANGED <<panelVars, svcVars, prModal, goToFile>>

\* the provider has mounted on an empty localStorage and its effects have run
BookmarkInit ==
    /\ bookmarkedRepos = storedList(null)
    /\ bookmarkedGists = storedList(null)
    /\ pendingRepoUpdates = <<>>
    /\ pendingGistUpdates = <<>>
    /\ localStorage = [gitrover_bookmarked_repos |-> stringify(storedList(null)),
                       gitrover_bookmarked_gists |-> stringify(storedList(null))]

\* ---------------------------------------------------------- GoToFileModal
\* the responses of githubApi.getTree: no entry, a few entries of which one
\* is a directory and one has no path, and more files than the list shows
Digits(i) == <<ToString(i \div 100), ToString((i \div 10) % 10), ToString(i % 10)>>
TreeResponses ==
    {<<>>,
     <<[path |-> Str(<<"a", "b">>), type |-> "blob"],
       [path |-> Str(<<"l", "i", "b">>), type |-> "tree"],
       [path |-> undefined, type |-> "blob"],
       [path |-> Str(<<"B", "a">>), type |-> "blob"],
       [path |-> Str(<<"c">>), type |-> "blob"]>>,
     [i \in 1..(ResultLimit + 1) |-> [path |-> Str(<<"f">> \o Digits(i)), type |-> "blob"]]}
SearchTerms == {<<>>, <<"a">>, <<"A", "b">>, <<"z">>, <<"1">>}
Keys == {"ArrowDown", "ArrowUp", "Enter", "Escape", "Tab"}

Max(a, b) == IF a > b THEN a ELSE b

\* String.prototype.toLowerCase, character by character
toLowerCase(s) ==
    [i \in DOMAIN s |-> CASE s[i] = "A" -> "a" [] s[i] = "B" -> "b" [] OTHER -> s[i]]

\* String.prototype.indexOf(char, from), positions counted from 0
indexOf(s, char, from) ==
    LET found == {i \in from..(Len(s) - 1) : s[i + 1] = char}
    IN  IF found = {} THEN -1
        ELSE CHOOSE i \in found : \A j \in found : i <= j

\* searchChars.every(...): each character is found after the previous one
RECURSIVE every(_, _, _)
every(searchChars, path, currentIndex) ==
    IF searchChars = <<>> THEN TRUE
    ELSE LET foundIndex == indexOf(path, Head(searchChars), currentIndex + 1)
         IN  foundIndex > -1 /\ every(Tail(searchChars), path, foundIndex)

\* res.data.tree.filter(blob with a path).map(...)
filesOnly(tree) ==
    LET blobs == SelectSeq(tree, LAMBDA item : item.type = "blob" /\ Truthy(item.path))
    IN  [i \in DOMAIN blobs |-> [path |-> blobs[i].path, type |-> "blob"]]

\* the effect on [searchTerm, fullTree]
searchEffect(g) ==
    IF g.searchTerm = <<>>
    THEN [g EXCEPT !.results = slice(g.fullTree, ResultLimit), !.selectedIndex = 0]
    ELSE LET searchChars == toLowerCase(g.searchTerm)
             filtered == SelectSeq(g.fullTree,
                            LAMBDA item : every(searchChars, toLowerCase(item.path[2]), -1))
         IN  [g EXCEPT !.results = slice(filtered, ResultLimit), !.selectedIndex = 0]

\* the else branch of the effect on [show, ..., fullTree.length], then the
\* search effect if the term changed
resetOnClose(g) ==
    LET reset == [g EXCEPT !.searchTerm = <<>>, !.selectedIndex = 0]
    IN  IF g.searchTerm /= <<>> THEN searchEffect(reset) ELSE reset

\* the parent shows the modal: the tree is fetched unless one is loaded
showModal ==
    /\ ~goToFile.show
    /\ Len(goToFile.fullTree) = 0 => goToFile.fetching < MaxFetches
    /\ goToFile' =
          IF Len(goToFile.fullTree) = 0
          THEN [goToFile EXCEPT !.show = TRUE, !.closeRequested = FALSE,
                                !.navigated = FALSE, !.loading = TRUE,
                                !.fetching = @ + 1]
          ELSE [goToFile EXCEPT !.show = TRUE, !.closeRequested = FALSE,
                                !.navigated = FALSE]
    /\ UNCHANGED <<panelVars, svcVars, prModal, bookmarkVars>>

\* the parent hides the modal
hideModal ==
    /\ goToFile.show
    /\ goToFile' = resetOnClose([goToFile EXCEPT !.show = FALSE])
    /\ UNCHANGED <<panelVars, svcVars, prModal, bookmarkVars>>

\* getTree resolves: then and finally, and the effects of the next render
treeResolves ==
    /\ goToFile.fetching > 0
    /\ \E tree \in TreeResponses :
          LET set == [goToFile EXCEPT !.fullTree = filesOnly(tree),
                                      !.results = slice(filesOnly(tree), ResultLimit),
                                      !.loading = FALSE,
                                      !.fetching = @ - 1]
              searched == searchEffect(set)
          IN  goToFile' =
                 IF ~goToFile.show /\ Len(set.fullTree) /= Len(goToFile.fullTree)
                 THEN resetOnClose(searched)
                 ELSE searched
    /\ UNCHANGED <<panelVars, svcVars, prModal, bookmarkVars>>

\* getTree rejects: catch logs, finally clears loading
treeRejects ==
    /\ goToFile.fetching > 0
    /\ goToFile' = [goToFile EXCEPT !.loading = FALSE, !.fetching = @ - 1]
    /\ UNCHANGED <<panelVars, svcVars, prModal, bookmarkVars>>

\* onChange of the input
changeSearchTerm ==
    /\ goToFile.show
    /\ \E term \in SearchTerms :
          /\ term /= goToFile.searchTerm
          /\ goToFile' = searchEffect([goToFile EXCEPT !.searchTerm = term])
    /\ UNCHANGED <<panelVars, svcVars, prModal, bookmarkVars>>

\* results[selectedIndex] is an element of the array
hasResultAt(g, index) == index >= 0 /\ index < Len(g.results)

\* the state after the keydown listener has handled key
keyDown(g, key) ==
    CASE key = "ArrowDown" ->
            [g EXCEPT !.selectedIndex = Min(@ + 1, Len(g.results) - 1)]
      [] key = "ArrowUp" ->
            [g EXCEPT !.selectedIndex = Max(@ - 1, 0)]
      [] key = "Enter" ->
            IF hasResultAt(g, g.selectedIndex)
            THEN [g EXCEPT !.navigated = TRUE, !.closeRequested = TRUE]
            ELSE g
      [] key = "Escape" ->
            [g EXCEPT !.closeRequested = TRUE]
      [] OTHER -> g

\* a key is pressed while the listener is registered
handleKeyDown ==
    /\ goToFile.show
    /\ \E key \in Keys : goToFile' = keyDown(goToFile, key)
    /\ UNCHANGED <<panelVars, svcVars, prModal, bookmarkVars>>

\* the modal has mounted hidden
GoToFileInit ==
    goToFile = [show |-> FALSE, searchTerm |-> <<>>, results |-> <<>>,
                fullTree |-> <<>>, loading |-> TRUE, selectedIndex |-> 0,
                fetching |-> 0, navigated |-> FALSE, closeRequested |-> FALSE]

PageInit == BookmarkInit /\ GoToFileInit

NoCall == [op |-> "none", context |-> undefined, api |-> ApiText(undefined)]
NoResult == [status |-> "none", value |-> undefined]

\* no AIPrReviewModal is open
NoModal ==
    [mounted |-> FALSE, body |-> null, review |-> Str(<<>>), loading |-> FALSE,
     error |-> Str(<<>>), step |-> "none", filesFetch |-> "none",
     context |-> undefined]

PanelInit ==
    /\ mounted = TRUE
    /\ summary = null /\ isSummaryLoading = FALSE
    /\ summaryError = null /\ isSummaryOpen = FALSE
    /\ healthResult = null /\ isHealthLoading = FALSE
    /\ healthError = null /\ isHealthOpen = FALSE
    /\ inflight = {} /\ chain = NoChain
    /\ calls = [op \in Operations |-> 0]
    /\ lastToggle = [card |-> "none", opened |-> FALSE, issued |-> FALSE]

Init ==
    /\ repo \in Repos
    /\ readmeContent \in Readmes
    /\ PanelInit
    /\ svcCall = NoCall /\ svcResult = NoResult /\ apiRequests = <<>>
    /\ prModal = NoModal
    /\ PageInit

Next ==
    \/ toggleSummary
    \/ toggleHealth
    \/ apiCompletes
    \/ summaryThenCatch
    \/ summaryFinally
    \/ healthThenCatch
    \/ healthFinally

Spec == Init /\ [][Next]_vars

\* promise callbacks are microtasks and always run; a generateContent call
\* returns or throws in the end
FairSpec ==
    /\ Spec
    /\ WF_vars(apiCompletes)
    /\ WF_vars(summaryThenCatch) /\ WF_vars(summaryFinally)
    /\ WF_vars(healthThenCatch) /\ WF_vars(healthFinally)

\* ------------------------------------------------ teardown, AIPrReviewModal
\* the page drops the sidebar (navigation): the promises in flight are not
\* cancelled and their callbacks still run
unmount ==
    /\ mounted
    /\ chain = NoChain
    /\ mounted' = FALSE
    /\ UNCHANGED <<props, summaryVars, healthVars, promiseVars, historyVars, svcVars, prModal, pageVars>>

PullRequestFiles ==
    {<<>>, <<[filename |-> "src/App.tsx", status |-> "modified",
              additions |-> 10, deletions |-> 2]>>}
FilesErrors ==
    {ErrorObject("Error", Str(<<"Network Error">>)), ErrorObject("Error", Str(<<>>))}
ReviewOutcomes ==
    {ApiText(Str(<<"A one-paragraph answer.">>)), ApiText(undefined),
     ApiThrow(ErrorObject("Error", Str(<<"429">>)))}
ReviewFallback == <<"Failed to generate review.">>

\* getPullRequestFiles resolves: the context is built and reviewPullRequest
\* is called
filesResolve ==
    /\ prModal.step = "files"
    /\ \E files \in PullRequestFiles :
          prModal' = [prModal EXCEPT
              !.step = "review",
              !.filesFetch = "resolved",
              !.context = Obj([title |-> Str(<<"Fix bug">>),
                               body |-> IF Truthy(prModal.body) THEN prModal.body
                                                                ELSE Str(<<>>),
                               user |-> Str(<<"alice">>),
                               files |-> files])]
    /\ UNCHANGED <<panelVars, svcVars, pageVars>>

\* mutant: the review is requested although the files could not be fetched
filesReject_reviewsAnyway ==
    /\ prModal.step = "files"
    /\ prModal' = [prModal EXCEPT
          !.step = "review",
          !.filesFetch = "rejected",
          !.context = Obj([title |-> Str(<<"Fix bug">>), body |-> Str(<<>>),
                           user |-> Str(<<"alice">>), files |-> <<>>])]
    /\ UNCHANGED <<panelVars, svcVars, pageVars>>

\* getPullRequestFiles rejects: catch and finally
filesReject ==
    /\ prModal.step = "files"
    /\ \E err \in FilesErrors :
          prModal' = [prModal EXCEPT
              !.step = "done",
              !.filesFetch = "rejected",
              !.error = setState(prModal.mounted, @, ErrorText(err, ReviewFallback)),
              !.loading = setState(prModal.mounted, @, FALSE)]
    /\ UNCHANGED <<panelVars, svcVars, pageVars>>

\* reviewPullRequest settles: setReview or catch, then finally
reviewSettles ==
    /\ prModal.step = "review"
    /\ \E api \in ReviewOutcomes :
          LET after == thenCatch(reviewPullRequest(prModal.context, api),
                                 prModal.review, prModal.error, ReviewFallback)
          IN  prModal' = [prModal EXCEPT
                  !.step = "done",
                  !.review = setState(prModal.mounted, @, after.result),
                  !.error = setState(prModal.mounted, @, after.error),
                  !.loading = setState(prModal.mounted, @, FALSE)]
    /\ UNCHANGED <<panelVars, svcVars, pageVars>>

\* onClose: the parent stops rendering the modal
closeModal ==
    /\ prModal.mounted
    /\ prModal' = [prModal EXCEPT !.mounted = FALSE]
    /\ UNCHANGED <<panelVars, svcVars, pageVars>>

\* the modal has just been mounted: its effect has called getPullRequestFiles
ModalInit ==
    \E body \in {null, Str(<<"Fixes #1">>)} :
        prModal = [mounted |-> TRUE, body |-> body, review |-> Str(<<>>),
                   loading |-> TRUE, error |-> Str(<<>>), step |-> "files",
                   filesFetch |-> "pending", context |-> undefined]

\* a repository with a description and a README, so that both cards fetch
TeardownInit ==
    /\ repo \in {r \in Repos : Truthy(r.description)}
    /\ readmeContent \in {readme \in Readmes : Truthy(readme)}
    /\ PanelInit
    /\ svcCall = NoCall /\ svcResult = NoResult /\ apiRequests = <<>>
    /\ ModalInit
    /\ PageInit

TeardownNext ==
    \/ toggleSummary
    \/ toggleHealth
    \/ apiCompletes
    \/ summaryThenCatch
    \/ summaryFinally
    \/ healthThenCatch
    \/ healthFinally
    \/ unmount
    \/ filesResolve
    \/ filesReject
    \/ reviewSettles
    \/ closeModal

TeardownSpec == TeardownInit /\ [][TeardownNext]_vars

\* ------------------------------------- aiService called directly (no panel)
\* every combination of present and absent optional fields
SummaryContexts ==
    {SummaryContext([name |-> Str(<<"GitRover">>), description |-> d,
                     topics |-> t, language |-> l], readme) :
        d \in Descriptions, t \in {<<>>, <<"react", "github">>},
        l \in {null, Str(<<"TypeScript">>)}, readme \in Readmes}
Snippets == {Str(<<>>), Str(<<"const x = 1;">>)}
ChangedFiles ==
    {[filename |-> "src/App.tsx", status |-> "modified", additions |-> 10, deletions |-> 2],
     [filename |-> "README.md", status |-> "added", additions |-> 5, deletions |-> 0]}
PRContexts ==
    {Obj([title |-> Str(<<"Fix bug">>), body |-> b, user |-> Str(<<"alice">>),
          files |-> files]) :
        b \in {Str(<<>>), Str(<<"Fixes #1">>)},
        files \in {<<>>} \cup {<<f>> : f \in ChangedFiles}
                    \cup {<<f, g>> : f \in ChangedFiles, g \in ChangedFiles}}

\* the service keeps no state of its own: each invocation is examined alone
callSummarizeRepo ==
    /\ svcCall = NoCall
    /\ \E context \in SummaryContexts, api \in ApiOutcomes :
          /\ svcCall' = [op |-> "summarizeRepo", context |-> context, api |-> api]
          /\ svcResult' = summarizeRepo(context, api)
          /\ apiRequests' = Requests("summarizeRepo", context)
    /\ UNCHANGED <<panelVars, prModal, pageVars>>

\* with a RepoHealthContext, or with the README string the panel passes
callCheckRepoHealth ==
    /\ svcCall = NoCall
    /\ \E context \in HealthContexts \cup (Readmes \ {null}), api \in ApiOutcomes :
          /\ svcCall' = [op |-> "checkRepoHealth", context |-> context, api |-> api]
          /\ svcResult' = checkRepoHealth(context, api)
          /\ apiRequests' = Requests("checkRepoHealth", context)
    /\ UNCHANGED <<panelVars, prModal, pageVars>>

callExplainCode ==
    /\ svcCall = NoCall
    /\ \E codeSnippet \in Snippets, api \in ApiOutcomes :
          /\ svcCall' = [op |-> "explainCode", context |-> codeSnippet, api |-> api]
          /\ svcResult' = explainCode(codeSnippet, api)
          /\ apiRequests' = Requests("explainCode", codeSnippet)
    /\ UNCHANGED <<panelVars, prModal, pageVars>>

callReviewPullRequest ==
    /\ svcCall = NoCall
    /\ \E context \in PRContexts, api \in ApiOutcomes :
          /\ svcCall' = [op |-> "reviewPullRequest", context |-> context, api |-> api]
          /\ svcResult' = reviewPullRequest(context, api)
          /\ apiRequests' = Requests("reviewPullRequest", context)
    /\ UNCHANGED <<panelVars, prModal, pageVars>>

ServiceInit ==
    /\ repo = [name |-> Str(<<"GitRover">>), description |-> null,
               topics |-> <<>>, language |-> null]
    /\ readmeContent = null
    /\ PanelInit
    /\ svcCall = NoCall /\ svcResult = NoResult /\ apiRequests = <<>>
    /\ prModal = NoModal
    /\ PageInit

ServiceNext ==
    \/ callSummarizeRepo
    \/ callCheckRepoHealth
    \/ callExplainCode
    \/ callReviewPullRequest

ServiceSpec == ServiceInit /\ [][ServiceNext]_vars

\* --------------------------------- checkRepoHealth on a large repository
\* a RepoHealthContext of n paths and k key files of len characters each:
\* the i-th path is "path<i>", the j-th character of a file is "<j>"
LargeHealthContext(n, k, len) ==
    Obj([filePaths |-> [i \in 1..n |-> "path" \o ToString(i)],
         keyFiles |-> [i \in 1..k |-> [path |-> "path" \o ToString(i),
                                        content |-> [j \in 1..len |-> ToString(j)]]]])

LargeHealthContexts ==
    {LargeHealthContext(n, k, 1) :
        n \in (0..2) \cup ((TreeLimit - 1)..(TreeLimit + MaxExtraPaths)),
        k \in 0..MaxKeyFiles}
        \cup {LargeHealthContext(2, k, len) :
                k \in 1..2,
                len \in (0..1) \cup ((KeyFileLimit - 1)..(KeyFileLimit + MaxExtraChars))}
        \cup {LargeHealthContext(TreeLimit + MaxExtraPaths, 1, KeyFileLimit + MaxExtraChars)}

callCheckRepoHealthOnLargeRepo ==
    /\ svcCall = NoCall
    /\ \E context \in LargeHealthContexts,
          api \in {ApiText(JsonText(<<"\"analysis\":", "\"ok\"">>,
                                     <<"\"health_score\":", "42">>)),
                   ApiThrow(ErrorObject("Error", Str(<<"503">>)))} :
          /\ svcCall' = [op |-> "checkRepoHealth", context |-> context, api |-> api]
          /\ svcResult' = checkRepoHealth(context, api)
          /\ apiRequests' = Requests("checkRepoHealth", context)
    /\ UNCHANGED <<panelVars, prModal, pageVars>>

LargeRepoSpec == ServiceInit /\ [][callCheckRepoHealthOnLargeRepo]_vars

\* ------------------------------------------- the bookmarks and the go-to-file
\* modal on their own
BookmarkNext ==
    \/ addRepo
    \/ removeRepo
    \/ addGist
    \/ removeGist
    \/ renderBookmarks

BookmarkSpec == ServiceInit /\ [][BookmarkNext]_vars

GoToFileNext ==
    \/ showModal
    \/ hideModal
    \/ treeResolves
    \/ treeRejects
    \/ changeSearchTerm
    \/ handleKeyDown

GoToFileSpec == ServiceInit /\ [][GoToFileNext]_vars

\* ================================================================== claims
\* requests of an operation whose promise chain has not finished
Outstanding(op) ==
    Cardinality({r \in inflight : r.op = op}) + (IF chain.op = op THEN 1 ELSE 0)

\* Idle | Loading | Ready | Failed, as the component's fields encode them
SummaryFailed ==
    Truthy(summaryError) /\ summary = null /\ ~isSummaryLoading
        /\ Outstanding("summarizeRepo") = 0
HealthFailed ==
    Truthy(healthError) /\ healthResult = null /\ ~isHealthLoading
        /\ Outstanding("checkRepoHealth") = 0

OpensSummary == ~isSummaryOpen /\ isSummaryOpen'
OpensHealth == ~isHealthOpen /\ isHealthOpen'

\* C1: for each insight kind at most one service request is outstanding at
\* any time, and no step taken while the kind's loading flag is set (a
\* toggle that opens the card included) issues another request for it.
C1_SingleFlight ==
    /\ [](\A op \in Operations : Outstanding(op) <= 1)
    /\ [][/\ isSummaryLoading => calls'["summarizeRepo"] = calls["summarizeRepo"]
          /\ isHealthLoading => calls'["checkRepoHealth"] = calls["checkRepoHealth"]]_vars

\* the summary card was re-opened while its request was still loading, and
\* the click called nothing
C1_Witness ==
    /\ isSummaryLoading /\ isSummaryOpen
    /\ lastToggle = [card |-> "summary", opened |-> TRUE, issued |-> FALSE]
    /\ Outstanding("summarizeRepo") = 1

\* C2: once a result is stored for an insight kind, no later step issues
\* another service request for that kind.
C2_ReadyNeverRefetches ==
    [][/\ summary /= null => calls'["summarizeRepo"] = calls["summarizeRepo"]
       /\ healthResult /= null => calls'["checkRepoHealth"] = calls["checkRepoHealth"]]_vars

\* the summary card holding a result was re-opened and the click called nothing
C2_Witness ==
    /\ summary /= null /\ ~isSummaryLoading /\ isSummaryOpen
    /\ lastToggle = [card |-> "summary", opened |-> TRUE, issued |-> FALSE]
    /\ calls["summarizeRepo"] = 1

\* C3 as claimed: opening a Failed panel issues no service request.
C3_FailedNeverRefetches ==
    [][/\ SummaryFailed /\ OpensSummary => calls'["summarizeRepo"] = calls["summarizeRepo"]
       /\ HealthFailed /\ OpensHealth => calls'["checkRepoHealth"] = calls["checkRepoHealth"]]_vars

\* C3 amended: opening a Failed panel issues exactly one new request for
\* its kind, clears the stored error and sets the loading flag, whenever the
\* panel's input check passes (README or description for the summary, README
\* for health); when the check fails it issues nothing and stores the
\* missing-input message again.
C3_FailedRefetches ==
    [][/\ SummaryFailed /\ OpensSummary =>
            IF Truthy(readmeContent) \/ Truthy(repo.description)
                THEN /\ calls'["summarizeRepo"] = calls["summarizeRepo"] + 1
                     /\ isSummaryLoading' /\ summaryError' = null
                ELSE /\ calls'["summarizeRepo"] = calls["summarizeRepo"]
                     /\ summaryError' = Str(<<"Not enough info to generate summary.">>)
       /\ HealthFailed /\ OpensHealth =>
            IF Truthy(readmeContent)
                THEN /\ calls'["checkRepoHealth"] = calls["checkRepoHealth"] + 1
                     /\ isHealthLoading' /\ healthError' = null
                ELSE /\ calls'["checkRepoHealth"] = calls["checkRepoHealth"]
                     /\ healthError' = Str(<<"No README content available.">>)]_vars

\* the health card, Failed after its first request, was opened again and
\* the click issued a second request
C3_Witness ==
    /\ calls["checkRepoHealth"] = 2 /\ isHealthLoading /\ healthError = null
    /\ lastToggle = [card |-> "health", opened |-> TRUE, issued |-> TRUE]

\* ----------------------------------------------- claims about the service
FreeTextOps == {"summarizeRepo", "explainCode", "reviewPullRequest"}

\* the messages of the classifier: the closed set of categories in the code
ClassifiedMessages ==
    {RateLimited, ServiceOverloaded, InvalidCredential, ContentFiltered, UnknownModelError}

\* messages the panel stores without calling the service
InputCheckMessages ==
    {<<"Not enough info to generate summary.">>, <<"No README content available.">>}

FreeTextCall == svcCall.op \in FreeTextOps
\* checkRepoHealth called with a RepoHealthContext: generateContent is reached
StructuredCall == svcCall.op = "checkRepoHealth" /\ svcCall.context[1] = "object"

\* what a component that consumed svcResult would hold afterwards
Consumed == thenCatch(svcResult, null, null, SummaryFallback)

C5_OnlyClassifiedErrors ==
    /\ chain.settlement.status = "rejected" =>
          /\ IsString(Message(chain.settlement.value))
          /\ Message(chain.settlement.value)[2] \in ClassifiedMessages \cup {EmptyResponseText}
    /\ \A e \in {summaryError, healthError} :
          e = null \/ (IsString(e) /\ e[2] \in ClassifiedMessages
                            \cup {EmptyResponseText} \cup InputCheckMessages)

\* an Error object whose message contains "429"
Has429(error) == error[1] = "error" /\ IsString(Message(error))
                    /\ includes(Message(error)[2], <<"429">>)

\* C6: a transport error whose message contains "429", whatever else it
\* contains, yields RateLimited in both modes: FreeText resolves to the
\* RateLimited message, StructuredJSON rejects with an Error carrying it.
C6_429IsRateLimited ==
    svcCall.api.throws /\ Has429(svcCall.api.error) =>
        /\ FreeTextCall => svcResult = Fulfilled(Str(RateLimited))
        /\ StructuredCall => svcResult = Rejected(ErrorObject("Error", Str(RateLimited)))

\* a message holding both an overload signal and "429", in StructuredJSON mode
C6_Witness ==
    /\ StructuredCall /\ svcCall.api.throws
    /\ svcCall.api.error = ErrorObject("Error", Str(<<"503", "429">>))
    /\ svcResult = Rejected(ErrorObject("Error", Str(RateLimited)))

\* a non-empty response of the model in StructuredJSON mode
StructuredText == StructuredCall /\ ~svcCall.api.throws /\ Truthy(svcCall.api.text)

C9_EmptyResponseDistinct ==
    StructuredCall /\ ~svcCall.api.throws /\ ~Truthy(svcCall.api.text) =>
        /\ svcResult.status = "rejected"
        /\ Message(svcResult.value) /= Str(UnknownModelError)

\* C10: a FreeText operation never rejects and always resolves to a
\* non-empty string; an empty or absent text gives the fixed placeholder.
C10_FreeTextNeverEmpty ==
    FreeTextCall =>
        /\ svcResult.status = "fulfilled"
        /\ IsString(svcResult.value) /\ svcResult.value[2] /= <<>>
        /\ ~svcCall.api.throws /\ ~Truthy(svcCall.api.text) =>
                svcResult.value = Str(EmptyPlaceholder)

C10_Witness ==
    /\ svcCall.op = "explainCode" /\ ~svcCall.api.throws
    /\ svcCall.api.text = Str(<<>>)
    /\ svcResult = Fulfilled(Str(EmptyPlaceholder))

\* ----------------------------------------------- claims about the prompts
\* position of the first occurrence of a token
IndexOf(s, token) ==
    CHOOSE i \in 1..Len(s) : s[i] = token /\ \A j \in 1..(i - 1) : s[j] /= token

\* the tokens between the first `from` and the first `to`
Section(s, from, to) == SubSeq(s, IndexOf(s, from) + 1, IndexOf(s, to) - 1)

\* the lines between <file_tree> and </file_tree>
TreeLines(prompt) ==
    LET NotNewline(token) == token /= "\n"
    IN  SelectSeq(Section(prompt, TreeOpen, TreeClose), NotNewline)

\* position of the k-th occurrence of a token
Nth(s, token, k) ==
    LET positions == {i \in 1..Len(s) : s[i] = token}
    IN  CHOOSE i \in positions : Cardinality({j \in positions : j < i}) = k - 1

\* number of <file path=...> blocks, and the text the k-th block embeds
KeyFileBlocks(prompt) == Cardinality({i \in 1..Len(prompt) : prompt[i] = FileOpen})
KeyFileBody(prompt, k) ==
    SubSeq(prompt, Nth(prompt, FileOpen, k) + 3, Nth(prompt, FileClose, k) - 1)

\* the invocation under examination reached generateContent
HealthRequested == svcCall.op = "checkRepoHealth" /\ apiRequests /= <<>>

\* C11: the tree section of the health prompt lists exactly the first
\* min(n, 100) of the n input paths, in input order, and every key-file
\* block embeds a prefix of at most 2,000 characters of that file's content.
C11_HealthPromptTruncates ==
    HealthRequested =>
        LET c == svcCall.context[2]
            prompt == apiRequests[1].contents
        IN  /\ TreeLines(prompt)
                 = SubSeq(c.filePaths, 1, Min(Len(c.filePaths), TreeLimit))
            /\ \A k \in 1..KeyFileBlocks(prompt) :
                  /\ k <= Len(c.keyFiles)
                  /\ Len(KeyFileBody(prompt, k)) <= KeyFileLimit
                  /\ KeyFileBody(prompt, k)
                        = SubSeq(c.keyFiles[k].content, 1, Len(KeyFileBody(prompt, k)))

\* a tree longer than the limit and a key file longer than the limit
C11_Witness ==
    /\ HealthRequested
    /\ Len(svcCall.context[2].filePaths) > TreeLimit
    /\ Len(TreeLines(apiRequests[1].contents)) = TreeLimit
    /\ \E k \in 1..Len(svcCall.context[2].keyFiles) :
          /\ Len(svcCall.context[2].keyFiles[k].content) > KeyFileLimit
          /\ Len(KeyFileBody(apiRequests[1].contents, k)) = KeyFileLimit

\* C12 as stated: the health prompt never holds more than five key-file
\* blocks, however many key files the context carries.
C12_AtMostFiveBlocks ==
    HealthRequested => KeyFileBlocks(apiRequests[1].contents) <= 5

\* C12: the health prompt holds one key-file block per key file of the
\* context, in input order, so it holds at most five blocks only when the
\* context carries at most five key files.
C12_OneBlockPerKeyFile ==
    HealthRequested =>
        LET c == svcCall.context[2]
            prompt == apiRequests[1].contents
        IN  /\ KeyFileBlocks(prompt) = Len(c.keyFiles)
            /\ \A k \in 1..Len(c.keyFiles) :
                  prompt[Nth(prompt, FileOpen, k) + 1] = c.keyFiles[k].path

\* ten key files give ten blocks
C12_Witness ==
    /\ HealthRequested
    /\ Len(svcCall.context[2].keyFiles) = 10
    /\ KeyFileBlocks(apiRequests[1].contents) = 10

SummaryRequested == svcCall.op = "summarizeRepo" /\ apiRequests /= <<>>

\* what the summary prompt holds in the place of each optional field
DescriptionField(prompt) == Section(prompt, DescriptionLabel, LanguageLabel)
LanguageField(prompt) == Section(prompt, LanguageLabel, TopicsLabel)
TopicsField(prompt) == Section(prompt, TopicsLabel, ReadmeOpen)
ReadmeField(prompt) == Section(prompt, ReadmeOpen, ReadmeClose)

\* C13 as stated: with the README absent and the description empty the
\* summary prompt is not empty and none of the four optional fields is
\* interpolated as the empty string.
C13_EveryAbsentFieldMarked ==
    (/\ SummaryRequested
     /\ ~Truthy(svcCall.context[2].readme)
     /\ ~Truthy(svcCall.context[2].description))
        => LET prompt == apiRequests[1].contents
           IN  /\ prompt /= <<>>
               /\ DescriptionField(prompt) /= <<>>
               /\ LanguageField(prompt) /= <<>>
               /\ TopicsField(prompt) /= <<>>
               /\ ReadmeField(prompt) /= <<>>

\* C13: the summary prompt is never empty; an empty description or primary
\* language is replaced by N/A and an empty topic list by None; an absent
\* README gets no marker and is interpolated as the empty string.
C13_MarkersExceptReadme ==
    SummaryRequested =>
        LET c == svcCall.context[2]
            prompt == apiRequests[1].contents
        IN  /\ prompt /= <<>>
            /\ DescriptionField(prompt)
                 = (IF Truthy(c.description) THEN c.description[2] ELSE <<"N/A">>)
            /\ LanguageField(prompt)
                 = (IF Truthy(c.primaryLanguage) THEN c.primaryLanguage[2] ELSE <<"N/A">>)
            /\ (c.topics = <<>> => TopicsField(prompt) = <<"None">>)
            /\ (c.topics /= <<>> => TopicsField(prompt) /= <<>>)
            /\ (~Truthy(c.readme) => ReadmeField(prompt) = <<>>)
            /\ (Truthy(c.readme) => ReadmeField(prompt) = c.readme[2])

\* no README, no description, no language, no topics
C13_Witness ==
    /\ SummaryRequested
    /\ svcCall.context[2].readme = null
    /\ svcCall.context[2].description = Str(<<>>)
    /\ svcCall.context[2].primaryLanguage = Str(<<>>)
    /\ svcCall.context[2].topics = <<>>
    /\ ReadmeField(apiRequests[1].contents) = <<>>
    /\ DescriptionField(apiRequests[1].contents) = <<"N/A">>

ReviewRequested == svcCall.op = "reviewPullRequest" /\ apiRequests /= <<>>

\* what the review prompt holds under **Description:** and **Changed Files:**
BodyField(prompt) == Section(prompt, BodyLabel, FilesLabel)
FilesField(prompt) == Section(prompt, FilesLabel, ReviewInstructions)

\* C14: the review prompt lists, for each changed file in input order, the
\* line "- <filename> (<status>: +<additions>, -<deletions>)", the lines
\* separated by newlines, and holds "No description provided." in the place
\* of an empty body.
C14_ReviewPromptListsFiles ==
    ReviewRequested =>
        LET c == svcCall.context[2]
            prompt == apiRequests[1].contents
            lines == FilesField(prompt)
            n == Len(c.files)
        IN  /\ Len(lines) = (IF n = 0 THEN 0 ELSE 10 * n - 1)
            /\ \A k \in 1..n :
                  /\ SubSeq(lines, 10 * k - 9, 10 * k - 1)
                       = <<"- ", c.files[k].filename, " (", c.files[k].status,
                           ": +", ToString(c.files[k].additions),
                           ", -", ToString(c.files[k].deletions), ")">>
                  /\ k < n => lines[10 * k] = "\n"
            /\ (c.body = Str(<<>>) => BodyField(prompt) = <<"No description provided.">>)
            /\ (c.body /= Str(<<>>) => BodyField(prompt) = c.body[2])

\* two different changed files and no description
C14_Witness ==
    /\ ReviewRequested
    /\ Len(svcCall.context[2].files) = 2
    /\ svcCall.context[2].files[1] /= svcCall.context[2].files[2]
    /\ svcCall.context[2].body = Str(<<>>)
    /\ BodyField(apiRequests[1].contents) = <<"No description provided.">>

\* C15: every generateContent call of every operation carries a thinking
\* budget of 32768.
C15_EveryCallThinks ==
    \A i \in DOMAIN apiRequests :
        /\ "thinkingConfig" \in DOMAIN apiRequests[i].config
        /\ apiRequests[i].config.thinkingConfig.thinkingBudget = 32768

\* ------------------------------------------------- claims about the panel
\* C16: what the health operation receives from the panel is a gathered
\* RepoHealthContext: an object holding the file paths of the tree and the
\* key files whose fetch succeeded.
C16_HealthReceivesGatheredContext ==
    chain.op = "checkRepoHealth" =>
        /\ chain.context[1] = "object"
        /\ DOMAIN chain.context[2] = {"filePaths", "keyFiles"}

CollapsesSummary == isSummaryOpen /\ ~isSummaryOpen' /\ ~isHealthOpen'
CollapsesHealth == isHealthOpen /\ ~isHealthOpen' /\ ~isSummaryOpen'

\* C18: collapsing an open card leaves the result, the error and the loading
\* flag of both kinds and the requests in flight as they are, and a request
\* that settles stores its outcome whether its card is open or collapsed.
C18_CollapseOnlyHides ==
    [][/\ (CollapsesSummary \/ CollapsesHealth) =>
             UNCHANGED <<summary, summaryError, isSummaryLoading,
                         healthResult, healthError, isHealthLoading, promiseVars>>
       /\ (chain.op = "summarizeRepo" /\ chain.stage = "handlers") =>
             IF chain.settlement.status = "fulfilled"
                 THEN summary' = chain.settlement.value
                 ELSE Truthy(summaryError')
       /\ (chain.op = "checkRepoHealth" /\ chain.stage = "handlers") =>
             IF chain.settlement.status = "fulfilled"
                 THEN healthResult' = chain.settlement.value
                 ELSE Truthy(healthError')]_vars

\* the summary card was collapsed while loading and its result has arrived
C18_Witness ==
    /\ lastToggle = [card |-> "summary", opened |-> FALSE, issued |-> FALSE]
    /\ ~isSummaryOpen /\ ~isHealthOpen
    /\ chain.op = "summarizeRepo" /\ chain.stage = "finally"
    /\ summary = chain.settlement.value
    /\ isSummaryLoading

\* a step of a summary request: it is issued, it settles, its callbacks run
SummaryRequestStep ==
    \/ calls'["summarizeRepo"] /= calls["summarizeRepo"]
    \/ chain.op = "summarizeRepo"
    \/ chain'.op = "summarizeRepo"
HealthRequestStep ==
    \/ calls'["checkRepoHealth"] /= calls["checkRepoHealth"]
    \/ chain.op = "checkRepoHealth"
    \/ chain'.op = "checkRepoHealth"

SummaryIdle ==
    summary = null /\ summaryError = null /\ ~isSummaryLoading
        /\ Outstanding("summarizeRepo") = 0
HealthIdle ==
    healthResult = null /\ healthError = null /\ ~isHealthLoading
        /\ Outstanding("checkRepoHealth") = 0

\* C20 as stated: expanding an Idle card issues exactly one request of its
\* kind and sets its loading flag, whatever the repository metadata.
C20_IdleExpandAlwaysFetches ==
    [][/\ (OpensSummary /\ SummaryIdle) =>
             /\ calls'["summarizeRepo"] = calls["summarizeRepo"] + 1
             /\ isSummaryLoading'
       /\ (OpensHealth /\ HealthIdle) =>
             /\ calls'["checkRepoHealth"] = calls["checkRepoHealth"] + 1
             /\ isHealthLoading']_vars

\* C20: expanding an Idle card issues exactly one request of its kind and
\* sets its loading flag when the card's input is present (README or
\* description for the summary, README for the health check); otherwise it
\* issues no request and stores the missing-input message.
C20_IdleExpandFetchesIfInputPresent ==
    [][/\ (OpensSummary /\ SummaryIdle) =>
             IF Truthy(readmeContent) \/ Truthy(repo.description)
                 THEN /\ calls'["summarizeRepo"] = calls["summarizeRepo"] + 1
                      /\ Outstanding("summarizeRepo")' = 1
                      /\ isSummaryLoading' /\ summaryError' = null
                 ELSE /\ calls'["summarizeRepo"] = calls["summarizeRepo"]
                      /\ Outstanding("summarizeRepo")' = 0
                      /\ ~isSummaryLoading'
                      /\ summaryError' = Str(<<"Not enough info to generate summary.">>)
       /\ (OpensHealth /\ HealthIdle) =>
             IF Truthy(readmeContent)
                 THEN /\ calls'["checkRepoHealth"] = calls["checkRepoHealth"] + 1
                      /\ Outstanding("checkRepoHealth")' = 1
                      /\ isHealthLoading' /\ healthError' = null
                 ELSE /\ calls'["checkRepoHealth"] = calls["checkRepoHealth"]
                      /\ Outstanding("checkRepoHealth")' = 0
                      /\ ~isHealthLoading'
                      /\ healthError' = Str(<<"No README content available.">>)]_vars

\* the first click on the summary card of a repository that has a
\* description and no README
C20_Witness ==
    /\ lastToggle = [card |-> "summary", opened |-> TRUE, issued |-> TRUE]
    /\ calls["summarizeRepo"] = 1 /\ calls["checkRepoHealth"] = 0
    /\ ~Truthy(readmeContent)
    /\ isSummaryLoading /\ Outstanding("summarizeRepo") = 1

\* the last callback of a health request runs
HealthRequestEnds ==
    chain.op = "checkRepoHealth" /\ chain.stage = "finally" /\ chain' = NoChain

\* C21: a health request issued for a repository whose data is available
\* ends Ready, with the result stored and no error stored, unless the
\* generative API failed or answered with nothing: when its last callback
\* has run, either the result is stored, or the stored error is one of the
\* messages the service has for an API failure.
C21_HealthRequestEndsReady ==
    [][HealthRequestEnds =>
          \/ Truthy(healthResult') /\ healthError' = null /\ ~isHealthLoading'
          \/ /\ IsString(healthError')
             /\ healthError'[2] \in ClassifiedMessages \cup {EmptyResponseText}]_vars

\* C22: a set loading flag means that the kind's request has not finished;
\* every panel that is Loading eventually is not, whatever is toggled in
\* between; and the callback that clears the flag leaves the panel Ready
\* (result stored) or Failed (error stored).
C22_LoadingEnds ==
    /\ [](isSummaryLoading => Outstanding("summarizeRepo") = 1)
    /\ [](isHealthLoading => Outstanding("checkRepoHealth") = 1)
    /\ isSummaryLoading ~> ~isSummaryLoading
    /\ isHealthLoading ~> ~isHealthLoading
    /\ [][/\ (chain.op = "summarizeRepo" /\ chain.stage = "finally") =>
                /\ ~isSummaryLoading'
                /\ Truthy(summary') \/ Truthy(summaryError')
          /\ (chain.op = "checkRepoHealth" /\ chain.stage = "finally") =>
                /\ ~isHealthLoading'
                /\ Truthy(healthResult') \/ Truthy(healthError')]_vars

\* the summary card was collapsed and its request has ended Ready; a health
\* request has ended Failed
C22_Witness ==
    /\ chain = NoChain /\ inflight = {}
    /\ calls["summarizeRepo"] = 1 /\ calls["checkRepoHealth"] = 1
    /\ ~isSummaryLoading /\ Truthy(summary) /\ summaryError = null
    /\ ~isHealthLoading /\ HealthFailed
    /\ ~isSummaryOpen

\* C23 as stated: a set loading flag implies that no error is stored.
C23_LoadingImpliesNoError ==
    /\ isSummaryLoading => summaryError = null
    /\ isHealthLoading => healthError = null

\* C23: a set loading flag implies that no error is stored, except between
\* the rejection handler of the request and its finally handler, where the
\* error of that very request is stored and the flag is not yet cleared; a
\* request that follows an earlier failure starts with the error cleared.
C23_ErrorWhileLoadingOnlyBeforeFinally ==
    /\ (isSummaryLoading /\ summaryError /= null) =>
          /\ chain.op = "summarizeRepo" /\ chain.stage = "finally"
          /\ chain.settlement.status = "rejected"
    /\ (isHealthLoading /\ healthError /= null) =>
          /\ chain.op = "checkRepoHealth" /\ chain.stage = "finally"
          /\ chain.settlement.status = "rejected"
          /\ healthError = ErrorText(chain.settlement.value, HealthFallback)

\* the second health request has been rejected and its flag is still set
C23_Witness ==
    /\ calls["checkRepoHealth"] = 2
    /\ isHealthLoading /\ Truthy(healthError)
    /\ chain.op = "checkRepoHealth" /\ chain.stage = "finally"

\* the text the classifier reads: the message of the error, the error itself
\* when it is a bare string, nothing for null and for an empty message
ClassifiedText(error) ==
    IF error[1] = "error" /\ Truthy(Message(error)) THEN Message(error)[2]
    ELSE IF error[1] = "string" THEN error[2]
    ELSE <<>>

Mentions(text, signals) == \E i \in DOMAIN text : text[i] \in signals

\* the category the claim assigns to a text, first match first
Category(text) ==
    IF Mentions(text, {"429", "Quota exceeded"}) THEN RateLimited
    ELSE IF Mentions(text, {"503", "Overloaded"}) THEN ServiceOverloaded
    ELSE IF Mentions(text, {"API key not valid", "API_KEY"}) THEN InvalidCredential
    ELSE IF Mentions(text, {"candidate"}) /\ Mentions(text, {"safety"}) THEN ContentFiltered
    ELSE UnknownModelError

\* C24: whatever generateContent throws (an Error, with or without a
\* message, a bare string, null), the service answers with exactly the one
\* category that the first matching rule of the claim's list assigns to the
\* error's text, UnknownModelError when no rule matches.
C24_ClassificationIsFirstMatch ==
    svcCall.api.throws =>
        LET category == Category(ClassifiedText(svcCall.api.error))
        IN  /\ FreeTextCall => svcResult = Fulfilled(Str(category))
            /\ StructuredCall => svcResult = Rejected(ErrorObject("Error", Str(category)))

\* null was thrown and the answer is UnknownModelError
C24_Witness ==
    /\ FreeTextCall /\ svcCall.api.throws
    /\ svcCall.api.error = null
    /\ svcResult = Fulfilled(Str(UnknownModelError))

\* C25: both cards are closed initially, at most one of them is open in
\* every reachable state, and a click that opens one leaves the other closed.
C25_AccordionExclusion ==
    /\ ~isSummaryOpen /\ ~isHealthOpen
    /\ [](~(isSummaryOpen /\ isHealthOpen))
    /\ [][/\ OpensSummary => ~isHealthOpen'
          /\ OpensHealth => ~isSummaryOpen']_vars

\* the health card was opened while the summary card was open and loading
C25_Witness ==
    /\ lastToggle.card = "health" /\ lastToggle.opened
    /\ isHealthOpen /\ ~isSummaryOpen
    /\ isSummaryLoading /\ calls["summarizeRepo"] = 1 /\ calls["checkRepoHealth"] = 0

\* C26: an open card is loading, or holds a result, or holds an error, so
\* that the generate button is never what an open card shows.
C26_OpenCardNeverIdle ==
    /\ isSummaryOpen => isSummaryLoading \/ Truthy(summary) \/ Truthy(summaryError)
    /\ isHealthOpen => isHealthLoading \/ Truthy(healthResult) \/ Truthy(healthError)

\* the model answered with nothing and the open summary card holds the
\* placeholder
C26_Witness ==
    /\ isSummaryOpen /\ ~isSummaryLoading /\ chain = NoChain
    /\ summary = Str(EmptyPlaceholder) /\ summaryError = null

\* C27: for each insight kind a result and an error are never both stored,
\* and no step stores an error for a kind whose result is stored.
C27_ResultExcludesError ==
    /\ [](~(summary /= null /\ summaryError /= null))
    /\ [](~(healthResult /= null /\ healthError /= null))
    /\ [][/\ summary /= null => summaryError' = null
          /\ healthResult /= null => healthError' = null]_vars

\* one card holds a result and no error, the other an error and no result
C27_Witness ==
    /\ Truthy(summary) /\ summaryError = null
    /\ Truthy(healthError) /\ healthResult = null
    /\ chain = NoChain

\* ------------------------------------------- claims about AIPrReviewModal
\* the modal has called reviewPullRequest
ReviewIssued == prModal.context /= undefined
FilesFetchFailed == prModal.filesFetch = "rejected"

\* C28: the modal calls reviewPullRequest only in the step that receives the
\* changed files, with those files in the context; when the files fetch
\* fails no review is ever requested and a modal that is still open ends
\* with loading cleared, a non-empty error and an empty review; and whenever
\* the sequence is over in an open modal, loading is cleared.
C28_ReviewOnlyAfterFiles ==
    /\ [](ReviewIssued =>
             /\ prModal.filesFetch = "resolved"
             /\ prModal.context[2].files \in PullRequestFiles)
    /\ [](FilesFetchFailed => ~ReviewIssued /\ prModal.step = "done")
    /\ []((FilesFetchFailed /\ prModal.mounted) =>
             /\ ~prModal.loading
             /\ Truthy(prModal.error)
             /\ prModal.review = Str(<<>>))
    /\ []((prModal.step = "done" /\ prModal.mounted) => ~prModal.loading)

\* the files fetch failed with an error that has no message
C28_Witness ==
    /\ prModal.mounted /\ FilesFetchFailed
    /\ ~prModal.loading
    /\ prModal.error = Str(ReviewFallback)
    /\ prModal.review = Str(<<>>)

\* ---------------------------------------------------------------- C29
NoDuplicateIds(list) ==
    \A i, j \in DOMAIN list : list[i].id = list[j].id => i = j

\* the queue removes id and does not add it again afterwards
RemovesLast(updates, id) ==
    \E k \in DOMAIN updates :
        /\ updates[k][1] = "filterOut" /\ updates[k][2] = id
        /\ \A j \in (k + 1)..Len(updates) :
              ~(updates[j][1] = "prepend" /\ updates[j][2].id = id)

\* C29: no bookmark list ever holds two entries with the same id, whatever
\* addRepo/removeRepo and addGist/removeGist calls were made and however many
\* of them were made between two renders; and once the removal of an id has
\* been applied, the list has no entry with that id.
C29_NoDuplicateIds ==
    /\ [](NoDuplicateIds(bookmarkedRepos) /\ NoDuplicateIds(bookmarkedGists))
    /\ [][/\ \A r \in BookmarkableRepos :
                RemovesLast(pendingRepoUpdates, r.id) /\ pendingRepoUpdates' = <<>>
                    => ~some(bookmarkedRepos', r.id)
          /\ \A g \in BookmarkableGists :
                RemovesLast(pendingGistUpdates, g.id) /\ pendingGistUpdates' = <<>>
                    => ~some(bookmarkedGists', g.id)]_vars

\* ---------------------------------------------------------------- C30
\* C30: in GoToFileModal the selected index is never negative, is below
\* results.length whenever there are results, and is 0 when there are none.
C30_SelectedIndexInRange ==
    /\ goToFile.selectedIndex >= 0
    /\ goToFile.results /= <<>> => goToFile.selectedIndex < Len(goToFile.results)
    /\ goToFile.results = <<>> => goToFile.selectedIndex = 0
====
